---- MODULE Spec2Model ----
(***************************************************************************)
(* bigFive: lexicon-based scoring of the Big Five personality traits.      *)
(*                                                                         *)
(* The model covers two entry points of src/index.js:                      *)
(*   bigFive (v2.0.1, lines 73-176), which takes an options object,        *)
(*   defaults it in place, tokenises, adds n-grams and hands the work to   *)
(*   the lex-helpers collaborators (itemCount, getMatches, doLex,          *)
(*   doMatches);                                                           *)
(*   bigfive (v0.3.0, lines 324-348) with its own getMatches and calcLex.  *)
(*                                                                         *)
(* Calls into collaborators whose code is not part of the repository are   *)
(* recorded as applications (the function and the positional arguments it  *)
(* receives): two results are equal when the same collaborator received    *)
(* the same arguments.                                                     *)
(***************************************************************************)
EXTENDS Integers, Sequences, FiniteSets, TLC

\* ------------------------------------------------------------------ bounds
\* longest text, in words
MaxWords == 4
\* most options a caller sets on the options object
MaxSet == 2

\* --------------------------------------------------------- JavaScript values
\* One record shape for every JavaScript value the options and the
\* collaborators' arguments take: k is the typeof-like kind, n a finite
\* number (or 1/0 for true/false), s a string (or the name of an infinity),
\* a the elements of an array.
JS(k, n, s, a) == [k |-> k, n |-> n, s |-> s, a |-> a]
Undef == JS("undefined", 0, "", <<>>)
Null == JS("null", 0, "", <<>>)
Num(x) == JS("number", x, "", <<>>)
PosInf == JS("number", 0, "Infinity", <<>>)
NegInf == JS("number", 0, "-Infinity", <<>>)
Str(x) == JS("string", 0, x, <<>>)
Bool(b) == JS("boolean", IF b THEN 1 ELSE 0, "", <<>>)
Arr(q) == JS("array", 0, "", q)
\* the intercepts object { O: 0, C: 0, E: 0, A: 0, N: 0 }
Ints == JS("object", 0, "OCEAN", <<>>)

\* ToBoolean: what `!v` and `v || d` test
Truthy(v) ==
  CASE v.k = "undefined" -> FALSE
    [] v.k = "null" -> FALSE
    [] v.k = "number" -> (v.s # "" \/ v.n # 0)
    [] v.k = "string" -> v.s # ""
    [] v.k = "boolean" -> v.n = 1
    [] OTHER -> TRUE

\* v || d
Or(v, d) == IF Truthy(v) THEN v ELSE d

\* ------------------------------------------------------------------ strings
\* A text is a run of words separated by single blanks, possibly written
\* with leading/trailing whitespace (pad).  "B" is the capital of "b".
Vocab == {"a", "B"}
WordSeqs == UNION {[1..n -> Vocab] : n \in 0..MaxWords}
Texts == [pad : BOOLEAN, words : WordSeqs]

\* !str for a string: only the empty string is falsy
IsEmptyString(str) == ~str.pad /\ str.words = <<>>

LowerWord(w) == IF w = "B" THEN "b" ELSE w
toLowerCase(str) ==
  [pad |-> str.pad, words |-> [i \in DOMAIN str.words |-> LowerWord(str.words[i])]]
trim(str) == [pad |-> FALSE, words |-> str.words]

\* tokenizer(str): the word tokens of the string in order; a string without a
\* single token yields null (String.prototype.match finds nothing).
tokenizer(str) == IF str.words = <<>> THEN Null ELSE Arr(str.words)

\* joins the words of one n-gram with single blanks
RECURSIVE JoinWords(_)
JoinWords(ws) ==
  IF ws = <<>> THEN ""
  ELSE IF Len(ws) = 1 THEN ws[1]
  ELSE ws[1] \o " " \o JoinWords(Tail(ws))

\* the n-gram generator followed by the join: every window of n consecutive
\* words of the string, in order, each as one blank-separated string
NGramStrings(str, n) ==
  IF Len(str.words) < n THEN <<>>
  ELSE [i \in 1..(Len(str.words) - n + 1) |-> JoinWords(SubSeq(str.words, i, i + n - 1))]

\* ------------------------------------------------------------------ lexicon
Categories == <<"O", "C", "E", "A", "N">>
\* term/weight pairs of each category in iteration order; C holds only
\* negative weights, A is empty
lexicon ==
  [O |-> << <<"a", 2>>, <<"a b", 3>> >>,
   C |-> << <<"b", -1>>, <<"b b", -2>> >>,
   E |-> << <<"a", -1>>, <<"b", 1>>, <<"a b a", 2>> >>,
   A |-> << >>,
   N |-> << <<"b a", 1>>, <<"a a", -3>> >>]

\* ------------------------------------------------------ bigfive v0.3.0
\* a scan that stops before the first element (i > 0 in place of i >= 0)
RECURSIVE indexesOfFromSkipFirst(_, _, _)
indexesOfFromSkipFirst(arr, el, i) ==
  IF i <= 1 THEN <<>>
  ELSE IF arr[i] = el THEN Append(indexesOfFromSkipFirst(arr, el, i - 1), i)
  ELSE indexesOfFromSkipFirst(arr, el, i - 1)
\* Array.prototype.indexesOf: the positions of el in arr, ascending (the scan
\* runs from the end and unshifts)
RECURSIVE indexesOfFrom(_, _, _)
indexesOfFrom(arr, el, i) ==
  IF i = 0 THEN <<>>
  ELSE IF arr[i] = el THEN Append(indexesOfFrom(arr, el, i - 1), i)
  ELSE indexesOfFrom(arr, el, i - 1)
indexesOf(arr, el) == indexesOfFrom(arr, el, Len(arr))

\* arr.indexOf(word) > -1
Includes(arr, word) == \E i \in DOMAIN arr : arr[i] = word

\* getNGrams: the n-grams of the string, each joined with ' '
getNGrams(str, n) == NGramStrings(str, n)

\* the inner loop of getMatches over the words of one category
RECURSIVE MatchCategory(_, _, _)
MatchCategory(arr, data, i) ==
  IF i > Len(data) THEN <<>>
  ELSE LET word == data[i][1]
           weight == data[i][2]
           rest == MatchCategory(arr, data, i + 1)
       IN IF Includes(arr, word)
          THEN << <<word, Len(indexesOf(arr, word)), weight>> >> \o rest
          ELSE rest

\* getMatches: per category, [word, count, weight] for the lexicon words
\* that occur in the token array
getMatches(arr) ==
  [c \in {Categories[i] : i \in DOMAIN Categories} |-> MatchCategory(arr, lexicon[c], 1)]

\* a sum that weighs every match by its count
RECURSIVE calcLexFromCounted(_, _)
calcLexFromCounted(obj, i) ==
  IF i > Len(obj) THEN 0 ELSE obj[i][2] * obj[i][3] + calcLexFromCounted(obj, i + 1)
\* calcLex: weight + weight + weight ...
RECURSIVE calcLexFrom(_, _)
calcLexFrom(obj, i) ==
  IF i > Len(obj) THEN 0 ELSE obj[i][3] + calcLexFrom(obj, i + 1)
calcLex(obj) == calcLexFrom(obj, 1)

\* the token array bigfive builds: unigrams, then bigrams, then trigrams
Tokens03(str) ==
  LET s == trim(toLowerCase(str))
  IN tokenizer(s).a \o getNGrams(s, 2) \o getNGrams(s, 3)

\* bigfive(str) for a string str
bigfive(str) ==
  LET s == trim(toLowerCase(str))
      tokens == tokenizer(s)
  IN IF tokens.k = "null"
     THEN [isNull |-> TRUE, tokens |-> <<>>, matches |-> getMatches(<<>>),
           ocean |-> [c \in DOMAIN lexicon |-> 0]]
     ELSE LET all == Tokens03(str)
              matches == getMatches(all)
          IN [isNull |-> FALSE, tokens |-> all, matches |-> matches,
              ocean |-> [c \in DOMAIN lexicon |-> calcLex(matches[c])]]

\* ------------------------------------------------------ bigFive v2.0.1
Fields == {"encoding", "max", "min", "nGrams", "output", "places", "sortBy", "wcGrams"}

\* the options literal used when no options object is passed
DefaultOpts ==
  [encoding |-> Str("binary"), max |-> PosInf, min |-> NegInf,
   nGrams |-> Arr(<<2, 3>>), output |-> Str("lex"), places |-> Num(9),
   sortBy |-> Str("freq"), wcGrams |-> Bool(FALSE)]

\* opts.x = opts.x || default, for the eight options
ApplyDefaults(o) ==
  [encoding |-> Or(o.encoding, Str("binary")),
   max |-> Or(o.max, PosInf),
   min |-> Or(o.min, NegInf),
   nGrams |-> Or(o.nGrams, Arr(<<2, 3>>)),
   output |-> Or(o.output, Str("lex")),
   places |-> Or(o.places, Num(9)),
   sortBy |-> Or(o.sortBy, Str("freq")),
   wcGrams |-> Or(o.wcGrams, Bool(FALSE))]

\* const encoding = opts.encoding; ... read after the defaulting: before is
\* the object as passed, after the object once defaulted
LocalsStale(before, after) ==
  [encoding |-> before.encoding, output |-> before.output,
   places |-> before.places, sortBy |-> before.sortBy]
Locals(before, after) ==
  [encoding |-> after.encoding, output |-> after.output,
   places |-> after.places, sortBy |-> after.sortBy]

\* warnings and errors written to the console
WarnNoInput == "no input found"
WarnDefaultOpts == "using default options"
WarnNoTokens == "no tokens found"
WarnOutput == "output option is invalid"
WarnNGram(n) == "wordcount less than n-gram value " \o ToString(n)

\* the test that lets window n through
WindowFits(n, wordcount) == n < wordcount

\* async.each over opts.nGrams with a synchronous iteratee: the windows in
\* array order; acc carries tokens, the warnings and the windows generated
RECURSIVE EachNGram(_, _, _, _, _)
EachNGram(ns, i, str, wordcount, acc) ==
  IF i > Len(ns) THEN acc
  ELSE LET n == ns[i]
       IN EachNGram(ns, i + 1, str, wordcount,
            IF WindowFits(n, wordcount)
            THEN [acc EXCEPT !.tokens = @ \o NGramStrings(str, n),
                             !.grams = @ \cup {n}]
            ELSE [acc EXCEPT !.warn = Append(@, WarnNGram(n)),
                             !.skipped = @ \cup {n}])

\* the guard around the n-gram loop
NGramsWanted(opts, wordcount) == Truthy(opts.nGrams) /\ wordcount > 2

\* itemCount: the tokens reduced to term -> number of occurrences
itemCount(tokens) ==
  [t \in {tokens[i] : i \in DOMAIN tokens} |->
     Cardinality({i \in DOMAIN tokens : tokens[i] = t})]

\* applications of the collaborators
NoBag == [t \in {} |-> 0]
NoMatcher == [called |-> FALSE, tokens |-> NoBag, min |-> Undef, max |-> Undef]
MatcherCall(tokens, min, max) ==
  [called |-> TRUE, tokens |-> tokens, min |-> min, max |-> max]
NoCall ==
  [called |-> FALSE, fn |-> "", matches |-> NoMatcher, ints |-> Undef,
   sortBy |-> Undef, places |-> Undef, encoding |-> Undef, wordcount |-> Undef]
\* doLex(matches, ints, places, encoding, wordcount), arguments by position
doLex(matches, a2, a3, a4, a5) ==
  [called |-> TRUE, fn |-> "doLex", matches |-> matches, ints |-> a2,
   sortBy |-> Undef, places |-> a3, encoding |-> a4, wordcount |-> a5]
\* doMatches(matches, sortBy, wordcount, places, encoding), by position
doMatches(matches, a2, a3, a4, a5) ==
  [called |-> TRUE, fn |-> "doMatches", matches |-> matches, ints |-> Undef,
   sortBy |-> a2, wordcount |-> a3, places |-> a4, encoding |-> a5]

\* what bigFive returns
RetNull == [kind |-> "null", values |-> NoCall, matches |-> NoCall]

\* return doLex(matches, places, encoding, wordcount) of the final branch
LexBranch(matches, places, encoding, wordcount) ==
  doLex(matches, places, encoding, wordcount, Undef)
\* doLex(matches, ints, places, encoding, wordcount) of the 'full' branch
FullValues(matches, places, encoding, wordcount) ==
  doLex(matches, Ints, places, encoding, wordcount)

\* async.parallel over two synchronous tasks: both run and the final
\* callback assigns `full` before parallel returns
FullBranch(matches, sortBy, places, encoding, wordcount) ==
  [kind |-> "full",
   matches |-> doMatches(matches, sortBy, wordcount, places, encoding),
   values |-> FullValues(matches, places, encoding, wordcount)]

\* the returns at the end of bigFive
SelectOutput(output, matches, sortBy, places, encoding, wordcount) ==
  IF output = Str("full")
  THEN [ret |-> FullBranch(matches, sortBy, places, encoding, wordcount),
        warn |-> <<>>]
  ELSE IF output = Str("matches")
  THEN [ret |-> [kind |-> "matches",
                 matches |-> doMatches(matches, sortBy, wordcount, places, encoding),
                 values |-> NoCall],
        warn |-> <<>>]
  ELSE [ret |-> [kind |-> "lex", matches |-> NoCall,
                 values |-> LexBranch(matches, places, encoding, wordcount)],
        warn |-> IF output # Str("lex") THEN <<WarnOutput>> ELSE <<>>]

\* wordcount after `if (opts.wcGrams) wordcount = tokens.length`
Recount(opts, wordcount, tokens) ==
  IF Truthy(opts.wcGrams) THEN Len(tokens) ELSE wordcount

\* if (tokens === undefined): a test that lets null through
NoTokensUndefinedOnly(tok) == tok.k = "undefined"
\* if (!tokens)
NoTokens(tok) == ~Truthy(tok)

\* an options argument: present (an object with the fields f) or not passed
NoOptions == [obj |-> FALSE, f |-> [x \in Fields |-> Undef]]
Options(f) == [obj |-> TRUE, f |-> f]

\* The body of bigFive(str, opts) for a string str, given the value tok the
\* tokenizer yields for the normalised string.  The result records what is
\* returned, the console output, the options object as the call leaves it,
\* and what the collaborators were handed.
bigFiveUsing(tok, str, arg) ==
  IF IsEmptyString(str)
  THEN [ret |-> RetNull, warn |-> <<WarnNoInput>>, stage |-> "noinput",
        opts |-> arg.f, unigrams |-> 0, wordcount |-> 0, tokens |-> <<>>,
        grams |-> {}, skipped |-> {}, matcher |-> NoMatcher, tok |-> Undef]
  ELSE
    LET s == trim(toLowerCase(str))
        w0 == IF arg.obj THEN <<>> ELSE <<WarnDefaultOpts>>
        before == IF arg.obj THEN arg.f ELSE DefaultOpts
        opts == ApplyDefaults(before)
        loc == Locals(before, opts)
    IN IF NoTokens(tok)
       THEN [ret |-> RetNull, warn |-> Append(w0, WarnNoTokens),
             stage |-> "notokens", opts |-> opts, unigrams |-> 0,
             wordcount |-> 0, tokens |-> <<>>, grams |-> {}, skipped |-> {},
             matcher |-> NoMatcher, tok |-> tok]
       ELSE
         LET wc0 == Len(tok.a)
             acc0 == [tokens |-> tok.a, warn |-> w0, grams |-> {}, skipped |-> {}]
             acc == IF NGramsWanted(opts, wc0)
                    THEN EachNGram(opts.nGrams.a, 1, s, wc0, acc0)
                    ELSE acc0
             wordcount == Recount(opts, wc0, acc.tokens)
             matches == MatcherCall(itemCount(acc.tokens), opts.min, opts.max)
             out == SelectOutput(loc.output, matches, loc.sortBy, loc.places,
                                 loc.encoding, Num(wordcount))
         IN [ret |-> out.ret, warn |-> acc.warn \o out.warn, stage |-> "done",
             opts |-> opts, unigrams |-> wc0, wordcount |-> wordcount,
             tokens |-> acc.tokens, grams |-> acc.grams,
             skipped |-> acc.skipped, matcher |-> matches, tok |-> tok]

\* bigFive(str, opts) with the tokenizer the module requires
bigFive(str, arg) == bigFiveUsing(tokenizer(trim(toLowerCase(str))), str, arg)

\* ------------------------------------------------------------ callers
\* values a caller gives an option
Supplied(x) ==
  CASE x = "encoding" -> {Str("frequency")}
    [] x = "max" -> {Num(0), Num(1)}
    [] x = "min" -> {Num(0), Num(-1)}
    [] x = "nGrams" -> {Bool(FALSE), Arr(<<2>>), Arr(<<2, 3>>)}
    [] x = "output" -> {Str("lex"), Str("matches"), Str("full"), Str("ocean"), Str("")}
    [] x = "places" -> {Num(0), Num(2)}
    [] x = "sortBy" -> {Str("weight")}
    [] x = "wcGrams" -> {Bool(TRUE), Bool(FALSE)}

\* the options a field set is given: every choice of values for it
ObjectsOver(S) ==
  {[x \in Fields |-> IF x \in S THEN g[x] ELSE Undef] :
     g \in [S -> UNION {Supplied(x) : x \in S}]}
OptionObjects ==
  {o \in UNION {ObjectsOver(S) : S \in {T \in SUBSET Fields : Cardinality(T) <= MaxSet}} :
     \A x \in Fields : o[x] = Undef \/ o[x] \in Supplied(x)}

VARIABLES heap, supplied, last
vars == <<heap, supplied, last>>

NoBigFive == bigFive([pad |-> FALSE, words |-> <<>>], NoOptions)
NoBigfive == bigfive([pad |-> FALSE, words |-> <<>>])
NoCallYet ==
  [fn |-> "none", str |-> [pad |-> FALSE, words |-> <<>>], arg |-> NoOptions,
   r |-> NoBigFive, r03 |-> NoBigfive]

\* the caller holds one options object (or none); supplied remembers what
\* the caller wrote into it
Init ==
  /\ heap \in {NoOptions} \cup {Options(o) : o \in OptionObjects}
  /\ supplied = heap
  /\ last = NoCallYet

\* bigFive(str, options): the call defaults the caller's object in place
CallWithOptions(str) ==
  /\ last.fn = "none"
  /\ heap.obj
  /\ LET r == bigFive(str, heap)
     IN /\ last' = [fn |-> "bigFive", str |-> str, arg |-> heap, r |-> r,
                    r03 |-> NoBigfive]
        /\ heap' = Options(r.opts)
  /\ UNCHANGED supplied

\* bigFive(str): no options object
CallWithoutOptions(str) ==
  /\ last.fn = "none"
  /\ last' = [fn |-> "bigFive", str |-> str, arg |-> NoOptions,
              r |-> bigFive(str, NoOptions), r03 |-> NoBigfive]
  /\ UNCHANGED <<heap, supplied>>

\* bigfive(str) of v0.3.0, which takes no options: its caller holds none
CallBigfive(str) ==
  /\ last.fn = "none"
  /\ ~heap.obj
  /\ last' = [fn |-> "bigfive", str |-> str, arg |-> NoOptions,
              r |-> NoBigFive, r03 |-> bigfive(str)]
  /\ UNCHANGED <<heap, supplied>>

\* the caller is done with the returned value and is ready to call again
Discard ==
  /\ last.fn # "none"
  /\ last' = NoCallYet
  /\ UNCHANGED <<heap, supplied>>

Next ==
  \/ \E str \in Texts : CallWithOptions(str)
  \/ \E str \in Texts : CallWithoutOptions(str)
  \/ \E str \in Texts : CallBigfive(str)
  \/ Discard

Spec == Init /\ [][Next]_vars

\* ------------------------------------------- an injected tokenizer
\* The module takes its tokenizer from the global scope when the lexicon is
\* a global too.  Such a tokenizer reports a string without tokens as an
\* absent result or as an empty sequence.
InjectedTokenizer(str) ==
  IF str.words = <<>> THEN {Null, Undef, Arr(<<>>)} ELSE {Arr(str.words)}

\* bigFive(str, options) with the injected tokenizer
InjectedCallWithOptions(str) ==
  /\ last.fn = "none"
  /\ heap.obj
  /\ \E tok \in InjectedTokenizer(trim(toLowerCase(str))) :
       LET r == bigFiveUsing(tok, str, heap)
       IN /\ last' = [fn |-> "bigFive", str |-> str, arg |-> heap, r |-> r,
                      r03 |-> NoBigfive]
          /\ heap' = Options(r.opts)
  /\ UNCHANGED supplied

\* bigFive(str) with the injected tokenizer
InjectedCallWithoutOptions(str) ==
  /\ last.fn = "none"
  /\ \E tok \in InjectedTokenizer(trim(toLowerCase(str))) :
       last' = [fn |-> "bigFive", str |-> str, arg |-> NoOptions,
                r |-> bigFiveUsing(tok, str, NoOptions), r03 |-> NoBigfive]
  /\ UNCHANGED <<heap, supplied>>

NextInjected ==
  \/ \E str \in Texts : InjectedCallWithOptions(str)
  \/ \E str \in Texts : InjectedCallWithoutOptions(str)
  \/ Discard

SpecInjected == Init /\ [][NextInjected]_vars

\* ------------------------------------------------------------ properties
CalledBigFive == last.fn = "bigFive"
Completed == CalledBigFive /\ last.r.stage = "done"
\* what the caller configured for option x (Undef: left out)
Cfg(x) == IF last.arg.obj THEN supplied.f[x] ELSE Undef
\* the collaborator applications of the last call
CallsMade == {c \in {last.r.ret.values, last.r.ret.matches} : c.called}
\* the last call's argument with option x set to v
ArgWith(x, v) ==
  [obj |-> TRUE,
   f |-> [(IF last.arg.obj THEN last.arg.f ELSE NoOptions.f) EXCEPT ![x] = v]]
IsMultiWord(t) == \E n \in {2, 3} : \E w \in [1..n -> {"a", "b"}] : t = JoinWords(w)

C2_BoundsHanded ==
  (Completed /\ last.arg.obj) =>
    /\ (Cfg("min") # Undef => last.r.matcher.min = Cfg("min"))
    /\ (Cfg("max") # Undef => last.r.matcher.max = Cfg("max"))

\* the sum of the weights of the lexicon terms of category c that occur
\* among the tokens, each term once
RECURSIVE WeightOfPresent(_, _, _)
WeightOfPresent(c, present, i) ==
  IF i = 0 THEN 0
  ELSE (IF lexicon[c][i][1] \in present THEN lexicon[c][i][2] ELSE 0)
         + WeightOfPresent(c, present, i - 1)
Swap(q, i, j) == [q EXCEPT ![i] = q[j], ![j] = q[i]]
\* C3: under binary encoding a category's score is 0 plus the sum of the
\* weights of the distinct lexicon terms that occur among the tokens, each
\* once whatever its count; exchanging tokens leaves every score unchanged.
C3_BinaryScore ==
  (last.fn = "bigfive" /\ ~last.r03.isNull) =>
    LET toks == last.r03.tokens
    IN \A c \in DOMAIN lexicon :
         /\ last.r03.ocean[c] =
              0 + WeightOfPresent(c, {toks[i] : i \in DOMAIN toks}, Len(lexicon[c]))
         /\ \A i, j \in DOMAIN toks :
              i < j => calcLex(getMatches(Swap(toks, i, j))[c]) = last.r03.ocean[c]
C3_Witness ==
  /\ last.fn = "bigfive" /\ ~last.r03.isNull
  /\ \E k \in DOMAIN last.r03.matches.O : last.r03.matches.O[k][2] >= 2
  /\ \E k \in DOMAIN last.r03.matches.E : last.r03.matches.E[k][1] = "a b a"
  /\ last.r03.ocean.O = 5

\* C4: with output 'full' the returned object has the two sections matches
\* and values, values being what output 'lex' returns and matches what
\* output 'matches' returns for the same text and other options.
C4_FullIsLexAndMatches ==
  (Completed /\ last.arg.obj /\ last.r.opts.output = Str("full")) =>
    /\ last.r.ret.kind = "full"
    /\ last.r.ret.values.called /\ last.r.ret.matches.called
    /\ last.r.ret.values = bigFive(last.str, ArgWith("output", Str("lex"))).ret.values
    /\ last.r.ret.matches =
         bigFive(last.str, ArgWith("output", Str("matches"))).ret.matches

\* the windows the call was asked for
Requested == {last.r.opts.nGrams.a[i] : i \in DOMAIN last.r.opts.nGrams.a}
\* C5: n-grams of a requested size n are generated and appended exactly when
\* the baseline word count is at least n.
C5_WindowIffEnoughWords ==
  Completed => \A n \in Requested : (n \in last.r.grams) <=> (last.r.unigrams >= n)

\* C6: the scorer and the match formatter are handed the number of unigram
\* tokens as wordcount when wcGrams is false, and the length of the whole
\* token sequence when wcGrams is true.
C6_WordcountHanded ==
  Completed =>
    \A c \in CallsMade :
      c.wordcount = Num(IF Cfg("wcGrams") = Bool(TRUE)
                        THEN Len(last.r.tokens) ELSE last.r.unigrams)

\* C7: a call returns what the first call with the same text and the same
\* configuration returned, also when the same options object has been
\* through earlier calls.
C7_SameCallSameResult ==
  CalledBigFive =>
    LET first == bigFive(last.str, IF last.arg.obj THEN supplied ELSE NoOptions)
    IN /\ last.r.ret = first.ret
       /\ last.r.warn = first.warn
       /\ last.r.matcher = first.matcher
C7_Witness ==
  /\ Completed /\ last.arg.obj /\ last.arg # supplied
  /\ Cfg("places") = Undef /\ last.r.ret.kind = "full"

\* C8: a supplied places (any integer >= 0, 0 included) is the precision the
\* scorer and the formatter are handed; 9 only when places is left out.
C8_PlacesHanded ==
  Completed =>
    \A c \in CallsMade :
      c.places = IF Cfg("places") # Undef THEN Cfg("places") ELSE Num(9)

\* C9: with nGrams false no n-gram is generated: the tokens counted and
\* matched are the unigrams only, none of them a multi-word term.
C9_NoNGramsWhenFalse ==
  (Completed /\ Cfg("nGrams") = Bool(FALSE)) =>
    /\ last.r.grams = {}
    /\ Len(last.r.tokens) = last.r.unigrams
    /\ \A t \in DOMAIN last.r.matcher.tokens : ~IsMultiWord(t)

\* C10: an output value other than 'lex', 'matches', 'full' draws the
\* invalid-output warning and the call returns what output 'lex' returns;
\* output 'lex' draws no such warning.
C10_InvalidOutputFallsBack ==
  (Completed /\ last.arg.obj /\ Cfg("output") # Undef) =>
    /\ Cfg("output") \notin {Str("lex"), Str("matches"), Str("full")} =>
         /\ \E i \in DOMAIN last.r.warn : last.r.warn[i] = WarnOutput
         /\ last.r.ret = bigFive(last.str, ArgWith("output", Str("lex"))).ret
    /\ Cfg("output") = Str("lex") =>
         \A i \in DOMAIN last.r.warn : last.r.warn[i] # WarnOutput

\* the position of a term among the keys of category c (0: not a key)
KeyIndex(c, term) ==
  IF \E i \in DOMAIN lexicon[c] : lexicon[c][i][1] = term
  THEN CHOOSE i \in DOMAIN lexicon[c] : lexicon[c][i][1] = term
  ELSE 0
\* C14: every match getMatches emits for a category is (term, count, weight)
\* with term a key of that category's lexicon, weight its weight and count
\* the number of tokens equal to term, at least 1; a term occurs at most
\* once among a category's matches, and the matches follow lexicon order.
C14_MatchesAreLexiconTerms ==
  (last.fn = "bigfive" /\ ~last.r03.isNull) =>
    LET toks == last.r03.tokens
    IN \A c \in DOMAIN lexicon :
         LET m == last.r03.matches[c]
         IN /\ \A k \in DOMAIN m :
                 /\ KeyIndex(c, m[k][1]) # 0
                 /\ m[k][3] = lexicon[c][KeyIndex(c, m[k][1])][2]
                 /\ m[k][2] = Cardinality({p \in DOMAIN toks : toks[p] = m[k][1]})
                 /\ m[k][2] >= 1
            /\ \A k, l \in DOMAIN m :
                 k < l => KeyIndex(c, m[k][1]) < KeyIndex(c, m[l][1])
C14_Witness ==
  /\ last.fn = "bigfive" /\ ~last.r03.isNull
  /\ Len(last.r03.matches.E) = 3
  /\ last.r03.matches.E[1] = <<"a", 2, -1>>
  /\ Len(last.r03.matches.C) = 1

\* C12: whenever a requested window n is skipped because the baseline word
\* count is less than n, a warning naming n is recorded and the call still
\* returns a normal result with the word count untouched (2 tokens with
\* window 3 requested: window 3 skipped with a warning, wordcount 2).
C12_SkippedWindowWarns ==
  Completed =>
    \A n \in Requested :
      last.r.unigrams < n =>
        /\ n \notin last.r.grams
        /\ \E i \in DOMAIN last.r.warn : last.r.warn[i] = WarnNGram(n)
        /\ last.r.ret.kind # "null"
        /\ (Cfg("wcGrams") # Bool(TRUE) => last.r.wordcount = last.r.unigrams)

\* C13: a call leaves the caller's options object as it was: every option
\* holds the value, or the absence, it had before the call.
C13_OptionsUnchanged ==
  (CalledBigFive /\ last.arg.obj) => heap = last.arg

\* the tokenizer yielded nothing: an absent result or an empty sequence
YieldedNoTokens ==
  /\ CalledBigFive /\ last.r.stage # "noinput"
  /\ (last.r.tok.k \in {"null", "undefined"} \/ last.r.tok = Arr(<<>>))
\* C11: when the tokenizer yields an absent result or an empty sequence,
\* bigFive returns null without calling the matcher or the scorer; so the
\* wordcount of a call that reaches a scorer is always greater than 0.
C11_NoTokensIsNull ==
  /\ YieldedNoTokens =>
       (last.r.ret = RetNull /\ ~last.r.matcher.called)
  /\ CalledBigFive =>
       \A c \in CallsMade : c.fn = "doLex" => last.r.wordcount > 0

====
